---- MODULE Spec2Model ----
(***************************************************************************)
(* CO2LoggerReading.py: one batch run of the script.  The log file is read *)
(* into a frame (load_and_prepare_data), the plots are drawn (draw_plots)  *)
(* and the KML document is written (generate_kml_trajectory).              *)
(*                                                                         *)
(* Number representation.  Packed coordinates (DDMM.M) are held as         *)
(* integers counting tenths: the packed value 4530.1 is 45301.  Decimal    *)
(* degrees are held as integers counting 1/600 degree (a tenth of a        *)
(* minute), so 45.5 degrees is 27300.  The normalized colour position is   *)
(* an exact fraction num/den.  Floating-point rounding is not modelled.    *)
(***************************************************************************)
EXTENDS Integers, Sequences, FiniteSets, TLC

VARIABLES
    pc,          \* position of the run in __main__
    file_found,  \* whether FILE_NAME exists
    file,        \* the rows of the log file, as text cells
    df,          \* the data frame (data_df), a sequence of rows
    crs_utm,     \* EPSG code handed to CRS.from_epsg for the planar system
    chart,       \* what draw_plots has drawn
    kml,         \* what generate_kml_trajectory has saved
    minmax_log   \* the functions that evaluated df['CO2'].min()/max(), in order

vars == <<pc, file_found, file, df, crs_utm, chart, kml, minmax_log>>

\* Largest number of rows of a log file.
MaxRows == 3

----------------------------------------------------------------------------
\* Cells.  k is the kind of the value, v its number (0 when it has none).
\*   file cells:   "num" numeric text, "text" non-numeric text, "empty"
\*   frame cells:  "num" a number, "nan" missing, "str" a Python str holding
\*                 numeric text, "txt" a Python str holding other text

Num(n) == [k |-> "num", v |-> n]

NaN == [k |-> "nan", v |-> 0]

Text == [k |-> "text", v |-> 0]

Empty == [k |-> "empty", v |-> 0]

\* One row of the log file: column_names, in file order.
R(time, lat, lon, co2, temp, hum) ==
    [Time |-> time, Latitude |-> lat, Longitude |-> lon,
     CO2 |-> co2, Temperature |-> temp, Humidity |-> hum]

\* The rows a log file is made of.
RowDomain ==
    { R(100000, Num(45300), Num(12000), Num(400), Num(20), Num(50)),
      R(100100, Num(45301), Num(12001), Num(800), Num(21), Num(51)),
      R(100200, Num(45302), Num(12002), Num(1200), Num(22), Num(52)),
      R(100000, Num(45300), Num(-3000), Num(400), Num(20), Num(50)),
      R(100000, Num(45300), Num(177000), Num(400), Num(20), Num(50)),
      R(100000, Num(45300), Num(-180000), Num(400), Num(20), Num(50)),
      R(100000, Num(45300), Num(180000), Num(400), Num(20), Num(50)),
      R(100000, Num(-12705), Num(-150705), Num(400), Num(20), Num(50)),
      R(100000, Num(45750), Num(12000), Num(400), Num(20), Num(50)),
      R(100000, Num(45300), Num(12750), Num(400), Num(20), Num(50)),
      R(100000, Empty, Num(12000), Num(400), Num(20), Num(50)),
      R(100000, Num(45300), Num(12000), Text, Num(20), Num(50)),
      R(100000, Num(45300), Num(12000), Empty, Num(20), Num(50)),
      R(100000, Num(45300), Num(12000), Num(400), Text, Num(50)),
      R(5, Num(45300), Num(12000), Num(400), Num(20), Num(50)),
      R(235959, Num(45300), Num(12000), Num(400), Num(20), Num(50)),
      R(246000, Num(45300), Num(12000), Num(400), Num(20), Num(50)) }

Files == UNION { [1..n -> RowDomain] : n \in 0..MaxRows }

----------------------------------------------------------------------------
\* pd.read_csv: a column without non-numeric text is numeric (empty fields
\* are NaN); a column with any non-numeric text keeps every field as a str.

Column(rows, name) == [i \in 1..Len(rows) |-> rows[i][name]]

read_csv_cell(cell, is_object) ==
    CASE cell.k = "empty" -> NaN
      [] cell.k = "text"  -> [k |-> "txt", v |-> 0]
      [] OTHER            -> IF is_object THEN [k |-> "str", v |-> cell.v] ELSE cell

read_csv_column(cells) ==
    LET is_object == \E i \in 1..Len(cells) : cells[i].k = "text"
    IN  [i \in 1..Len(cells) |-> read_csv_cell(cells[i], is_object)]

\* pd.to_numeric(column, errors='coerce')
to_numeric(cell) ==
    CASE cell.k = "str" -> Num(cell.v)
      [] cell.k = "txt" -> NaN
      [] OTHER          -> cell

----------------------------------------------------------------------------
\* int(x): truncation toward zero of the quotient a/b.
TruncDiv(a, b) == IF a >= 0 THEN a \div b ELSE -((-a) \div b)

\* convert_ddmmss_to_dd with the quotient and remainder of a language that
\* truncates toward zero (remainder with the sign of the coordinate).
convert_ddmmss_to_dd_truncating(coord) ==
    LET degrees == TruncDiv(coord, 100 * 10)
        decimal_minutes == coord - degrees * (100 * 10)
    IN  degrees * 600 + decimal_minutes

\* convert_ddmmss_to_dd, on a finite coordinate.
convert_ddmmss_to_dd(coord) ==
    LET degrees == coord \div (100 * 10)
        decimal_minutes == coord % (100 * 10)
    IN  degrees * 600 + decimal_minutes

\* int(nan) raises ValueError inside convert_ddmmss_to_dd.
convert_raises(cell) == cell.k # "num"

\* format_time_string: zero-padded to six digits, cut in three.
format_time_string(time_value) ==
    <<time_value \div 10000, (time_value \div 100) % 100, time_value % 100>>

\* datetime.strptime(s, '%H%M%S') raises ValueError on a field out of range.
strptime_raises(time_value) ==
    LET f == format_time_string(time_value)
    IN  f[1] > 23 \/ f[2] > 59 \/ f[3] > 59

\* seconds of the day of strptime's result
strptime(time_value) ==
    LET f == format_time_string(time_value)
    IN  f[1] * 3600 + f[2] * 60 + f[3]

\* calculate_relative_seconds wrapped into one day (timedelta.seconds in
\* place of total_seconds()).
calculate_relative_seconds_wrapped(row_time, start_time) ==
    (strptime(row_time) - strptime(start_time)) % 86400

calculate_relative_seconds(row_time, start_time) ==
    strptime(row_time) - strptime(start_time)

----------------------------------------------------------------------------
\* df['Longitude_DD'].mean() is Sum(lons) / Len(lons).
RECURSIVE Sum(_)
Sum(s) == IF s = <<>> THEN 0 ELSE s[1] + Sum(Tail(s))

\* utm_zone with round() in place of int().
utm_zone_rounded(lons) ==
    ((2 * (Sum(lons) + 180 * 600 * Len(lons)) + 6 * 600 * Len(lons))
        \div (2 * 6 * 600 * Len(lons))) + 1

\* utm_zone = int((mean_lon + 180) / 6) + 1, on the longitudes in 1/600 degree
utm_zone(lons) ==
    TruncDiv(Sum(lons) + 180 * 600 * Len(lons), 6 * 600 * Len(lons)) + 1

\* The number read from the string f'326{utm_zone}'.
epsg_code(zone) ==
    IF zone < 10 THEN 326 * 10 + zone
    ELSE IF zone < 100 THEN 326 * 100 + zone
    ELSE 326 * 1000 + zone

\* CRS.from_epsg: 32601..32660 are the northern zones and 32661 is the north
\* polar system; what any other code names depends on the installed
\* registry, which either knows the code or raises CRSError.
from_epsg(code) ==
    IF code \in 32601..32661 THEN {"crs"} ELSE {"crs", "CRSError"}

\* transformer.transform: the planar coordinate of a point is left
\* uninterpreted; it is determined by the planar system and the point.
transform(code, lon, lat) ==
    [E |-> [epsg |-> code, axis |-> "easting", lon |-> lon, lat |-> lat],
     N |-> [epsg |-> code, axis |-> "northing", lon |-> lon, lat |-> lat]]

\* The frame load_and_prepare_data returns, built column by column.
prepared(rows, code) ==
    LET n == Len(rows)
        CO2 == read_csv_column(Column(rows, "CO2"))
        Temperature == read_csv_column(Column(rows, "Temperature"))
        Humidity == read_csv_column(Column(rows, "Humidity"))
        Latitude == read_csv_column(Column(rows, "Latitude"))
        Longitude == read_csv_column(Column(rows, "Longitude"))
        Latitude_DD == [i \in 1..n |-> convert_ddmmss_to_dd(Latitude[i].v)]
        Longitude_DD == [i \in 1..n |-> convert_ddmmss_to_dd(Longitude[i].v)]
        zone == utm_zone(Longitude_DD)
    IN  [i \in 1..n |->
            [Time |-> rows[i].Time,
             Latitude |-> Latitude[i],
             Longitude |-> Longitude[i],
             CO2 |-> CO2[i],
             Temperature |-> Temperature[i],
             Humidity |-> Humidity[i],
             Latitude_DD |-> Latitude_DD[i],
             Longitude_DD |-> Longitude_DD[i],
             Easting_m |-> transform(code, Longitude_DD[i], Latitude_DD[i]).E,
             Northing_m |-> transform(code, Longitude_DD[i], Latitude_DD[i]).N,
             UTM_Zone |-> zone,
             Time_HHMMSS |-> format_time_string(rows[i].Time),
             Relative_Seconds |->
                 calculate_relative_seconds(rows[i].Time, rows[1].Time)]]

\* The longitudes of the file in decimal degrees, once the columns converted.
Longitude_DD_of(rows) ==
    [i \in 1..Len(rows) |-> convert_ddmmss_to_dd(rows[i].Longitude.v)]

\* An uncaught exception of load_and_prepare_data other than those of from_epsg:
\* EmptyDataError of read_csv on a file without rows, ValueError of int(nan)
\* in convert_ddmmss_to_dd, ValueError of strptime.
load_raises(rows) ==
    \/ rows = <<>>
    \/ \E i \in 1..Len(rows) : convert_raises(read_csv_cell(rows[i].Latitude, FALSE))
    \/ \E i \in 1..Len(rows) : convert_raises(read_csv_cell(rows[i].Longitude, FALSE))
    \/ \E i \in 1..Len(rows) : strptime_raises(rows[i].Time)

NoChart == [shown |-> FALSE, min_co2 |-> NaN, max_co2 |-> NaN, c |-> <<>>]

NoKml == [saved |-> FALSE, min_co2 |-> NaN, max_co2 |-> NaN,
          linestring |-> <<>>, points |-> <<>>]

Init ==
    /\ pc = "start"
    /\ file_found \in BOOLEAN
    /\ file \in Files
    /\ (~file_found => file = <<>>)
    /\ df = <<>>
    /\ crs_utm = 0
    /\ chart = NoChart
    /\ kml = NoKml
    /\ minmax_log = <<>>

\* data_df = load_and_prepare_data(FILE_NAME)
load_and_prepare_data ==
    /\ pc = "start"
    /\ IF ~file_found
       THEN /\ pc' = "exit"        \* FileNotFoundError: sys.exit(1)
            /\ UNCHANGED <<df, crs_utm>>
       ELSE IF load_raises(file)
       THEN /\ pc' = "failed"
            /\ UNCHANGED <<df, crs_utm>>
       ELSE LET code == epsg_code(utm_zone(Longitude_DD_of(file)))
            IN  \E outcome \in from_epsg(code) :
                   IF outcome = "CRSError"
                   THEN /\ pc' = "failed"
                        /\ crs_utm' = code
                        /\ UNCHANGED df
                   ELSE /\ pc' = "loaded"
                        /\ crs_utm' = code
                        /\ df' = prepared(file, code)
    /\ UNCHANGED <<file_found, file, chart, kml, minmax_log>>

----------------------------------------------------------------------------
\* Normalized colour positions: a fraction num/den (den > 0), nan or inf.

Fin(num, den) == [k |-> "fin", num |-> num, den |-> den]

TNaN == [k |-> "nan", num |-> 0, den |-> 1]

TInf == [k |-> "inf", num |-> 0, den |-> 1]

Numbers(cells) == { cells[i].v : i \in { j \in 1..Len(cells) : cells[j].k = "num" } }

\* Series.min() and Series.max() of a numeric column: NaN entries are skipped,
\* and the result is NaN when nothing is left.
series_min(cells) ==
    IF Numbers(cells) = {} THEN NaN
    ELSE Num(CHOOSE m \in Numbers(cells) : \A x \in Numbers(cells) : m <= x)

series_max(cells) ==
    IF Numbers(cells) = {} THEN NaN
    ELSE Num(CHOOSE m \in Numbers(cells) : \A x \in Numbers(cells) : m >= x)

\* plt.Normalize(vmin, vmax) applied to one value by scatter: 0 for every
\* value when vmin == vmax, the linear position otherwise, no clipping.
Normalize(value, vmin, vmax) ==
    IF value.k # "num" \/ vmin.k # "num" \/ vmax.k # "num" THEN TNaN
    ELSE IF vmin.v = vmax.v THEN Fin(0, 1)
    ELSE Fin(value.v - vmin.v, vmax.v - vmin.v)

\* get_kml_color dividing the value itself by the range (min_co2 not
\* subtracted in the numerator).
get_kml_color_no_offset(co2_value, min_co2, max_co2) ==
    IF co2_value.k # "num" \/ min_co2.k # "num" \/ max_co2.k # "num" THEN TNaN
    ELSE IF max_co2.v - min_co2.v = 0 THEN TInf
    ELSE Fin(co2_value.v, max_co2.v - min_co2.v)

\* normalized_value of get_kml_color: a division of numpy scalars, where
\* 0/0 is nan and x/0 is inf.
get_kml_color(co2_value, min_co2, max_co2) ==
    IF co2_value.k # "num" \/ min_co2.k # "num" \/ max_co2.k # "num" THEN TNaN
    ELSE IF max_co2.v - min_co2.v = 0
         THEN (IF co2_value.v - min_co2.v = 0 THEN TNaN ELSE TInf)
    ELSE Fin(co2_value.v - min_co2.v, max_co2.v - min_co2.v)

\* The three pd.to_numeric(..., errors='coerce') assignments of draw_plots.
coerced(frame) ==
    [i \in 1..Len(frame) |->
        [frame[i] EXCEPT !.Temperature = to_numeric(@),
                         !.Humidity = to_numeric(@),
                         !.CO2 = to_numeric(@)]]

\* draw_plots(data_df): the columns are coerced in place, then the range of
\* CO2 is taken and the trajectory is coloured with it.
draw_plots ==
    /\ pc = "loaded"
    /\ LET frame == coerced(df)
           min_co2 == series_min(Column(frame, "CO2"))
           max_co2 == series_max(Column(frame, "CO2"))
       IN  /\ df' = frame
           /\ chart' = [shown |-> TRUE, min_co2 |-> min_co2, max_co2 |-> max_co2,
                        c |-> [i \in 1..Len(frame) |->
                                   Normalize(frame[i].CO2, min_co2, max_co2)]]
    /\ minmax_log' = Append(minmax_log, "draw_plots")
    /\ pc' = "plotted"
    /\ UNCHANGED <<file_found, file, crs_utm, kml>>

\* generate_kml_trajectory(data_df, KML_FILE_NAME)
generate_kml_trajectory ==
    /\ pc = "plotted"
    /\ LET min_co2 == series_min(Column(df, "CO2"))
           max_co2 == series_max(Column(df, "CO2"))
       IN  kml' = [saved |-> TRUE, min_co2 |-> min_co2, max_co2 |-> max_co2,
                   linestring |-> [i \in 1..Len(df) |->
                                      <<df[i].Longitude_DD, df[i].Latitude_DD, 0>>],
                   points |-> [i \in 1..Len(df) |->
                       [coords |-> <<df[i].Longitude_DD, df[i].Latitude_DD, 0>>,
                        co2_val |-> df[i].CO2,
                        normalized_value |->
                            get_kml_color(df[i].CO2, min_co2, max_co2),
                        Time |-> df[i].Time_HHMMSS,
                        Temperature |-> df[i].Temperature,
                        Humidity |-> df[i].Humidity]]]
    /\ minmax_log' = Append(minmax_log, "generate_kml_trajectory")
    /\ pc' = "done"
    /\ UNCHANGED <<file_found, file, df, crs_utm, chart>>

Next == load_and_prepare_data \/ draw_plots \/ generate_kml_trajectory

Spec == Init /\ [][Next]_vars

----------------------------------------------------------------------------
\* Vocabulary of the properties.

Returned == pc \in {"loaded", "plotted", "done"}

Rows == 1..Len(file)

\* the numeric CO2 values of the log
FileCO2 == { file[i].CO2.v : i \in { j \in Rows : file[j].CO2.k = "num" } }

AllCO2Numeric == \A i \in Rows : file[i].CO2.k = "num"

\* a packed coordinate whose minutes part is below 60
ValidPacked(p) == p % 1000 < 600

\* packing decimal degrees again: degrees*100 + minutes
Repack(dd) == (dd \div 600) * 1000 + (dd % 600)

\* a coordinate field that is not finite or whose minutes are 60 or more
Malformed(cell) == cell.k # "num" \/ ~ValidPacked(cell.v)

MeanLonIs(deg) ==
    Sum(Column(df, "Longitude_DD")) = deg * 600 * Len(df)

MeanLonInRange ==
    /\ Sum(Column(df, "Longitude_DD")) >= (-180) * 600 * Len(df)
    /\ Sum(Column(df, "Longitude_DD")) <= 180 * 600 * Len(df)

FloorZone ==
    ((Sum(Column(df, "Longitude_DD")) + 180 * 600 * Len(df))
        \div (6 * 600 * Len(df))) + 1

\* a <= b for two finite positions
LeqT(a, b) == a.num * b.den <= b.num * a.den

----------------------------------------------------------------------------
\* C1: in every run the chart and the export colour CO2 with the same
\* min/max, taken from one scale computed before either consumer runs;
\* neither consumer computes the range itself, and every CO2 value gets the
\* same normalized position in both outputs.
C1_OneSharedScale ==
    pc = "done" =>
        /\ "draw_plots" \notin { minmax_log[i] : i \in 1..Len(minmax_log) }
        /\ "generate_kml_trajectory" \notin { minmax_log[i] : i \in 1..Len(minmax_log) }
        /\ chart.min_co2 = kml.min_co2
        /\ chart.max_co2 = kml.max_co2
        /\ \A i \in 1..Len(df) : chart.c[i] = kml.points[i].normalized_value

\* C2: when all CO2 values are equal, every point gets position 0 (the green
\* anchor) in the export and in the chart: no NaN, no failure.
C2_DegenerateIsGreen ==
    (pc = "done" /\ AllCO2Numeric /\ Cardinality(FileCO2) = 1) =>
        \A i \in 1..Len(df) :
            /\ kml.points[i].normalized_value.k = "fin"
            /\ kml.points[i].normalized_value.num = 0
            /\ chart.c[i].k = "fin"
            /\ chart.c[i].num = 0

\* C3: with min < max, the position of every CO2 value lies in [0,1], is
\* non-decreasing in the value, and is 0 at the minimum, 1 at the maximum and
\* 1/2 at the midpoint.
C3_LinearAnchors ==
    (pc = "done" /\ Cardinality(FileCO2) > 1) =>
        LET lo == CHOOSE m \in FileCO2 : \A x \in FileCO2 : m <= x
            hi == CHOOSE m \in FileCO2 : \A x \in FileCO2 : m >= x
            Valued == { i \in Rows : file[i].CO2.k = "num" }
            t(i) == kml.points[i].normalized_value
        IN  /\ \A i \in Valued :
                /\ t(i).k = "fin"
                /\ 0 <= t(i).num /\ t(i).num <= t(i).den
                /\ (file[i].CO2.v = lo => t(i).num = 0)
                /\ (file[i].CO2.v = hi => t(i).num = t(i).den)
                /\ (2 * file[i].CO2.v = lo + hi => 2 * t(i).num = t(i).den)
            /\ \A i, j \in Valued :
                file[i].CO2.v <= file[j].CO2.v => LeqT(t(i), t(j))

\* C3 witness: the three values 400, 800, 1200 got 0, 1/2 and 1.
C3_Witness ==
    /\ pc = "done"
    /\ Len(file) = 3
    /\ \A i \in 1..3 : file[i].CO2 = Num(400 * i)
    /\ kml.points[1].normalized_value.num = 0
    /\ 2 * kml.points[2].normalized_value.num = kml.points[2].normalized_value.den
    /\ kml.points[3].normalized_value.num = kml.points[3].normalized_value.den

\* C4: a packed coordinate D*100 + M with 0 <= M < 60 converts to D + M/60
\* (D the floor of p/100, M = p - D*100), and packing the result again
\* gives the coordinate back.
C4_ConvertRoundTrip ==
    Returned =>
        \A i \in Rows :
            /\ ValidPacked(file[i].Latitude.v) =>
                  LET D == file[i].Latitude.v \div 1000
                      M == file[i].Latitude.v - D * 1000
                  IN  /\ df[i].Latitude_DD = D * 600 + M
                      /\ Repack(df[i].Latitude_DD) = file[i].Latitude.v
            /\ ValidPacked(file[i].Longitude.v) =>
                  LET D == file[i].Longitude.v \div 1000
                      M == file[i].Longitude.v - D * 1000
                  IN  /\ df[i].Longitude_DD = D * 600 + M
                      /\ Repack(df[i].Longitude_DD) = file[i].Longitude.v

\* C4 witness: -1270.5 (D = -13, M = 29.5) became -13 + 29.5/60.
C4_Witness ==
    /\ Returned
    /\ file[1].Latitude = Num(-12705)
    /\ df[1].Latitude_DD = (-13) * 600 + 295

\* C5: a malformed latitude or longitude in any row fails the whole run:
\* neither the chart nor the KML file is produced.
C5_MalformedFailsAtomically ==
    (\E i \in Rows : Malformed(file[i].Latitude) \/ Malformed(file[i].Longitude)) =>
        /\ ~Returned
        /\ ~chart.shown
        /\ ~kml.saved

\* C6: with the mean longitude in [-180, 180] the zone is
\* floor((mean + 180)/6) + 1 and lies in 1..60; no zone outside 1..60 is
\* handed to the projection.
C6_ZoneInRange ==
    /\ (Returned /\ MeanLonInRange) =>
           /\ df[1].UTM_Zone = FloorZone
           /\ df[1].UTM_Zone \in 1..60
    /\ crs_utm # 0 =>
           utm_zone(Longitude_DD_of(file)) \in 1..60

\* C7 as stated: the zone of mean longitude -3.0 is 31, of 177.0 is 60 and
\* of -180.0 is 1.
C7_ZoneExamplesAsStated ==
    Returned =>
        /\ (MeanLonIs(-3) => df[1].UTM_Zone = 31)
        /\ (MeanLonIs(177) => df[1].UTM_Zone = 60)
        /\ (MeanLonIs(-180) => df[1].UTM_Zone = 1)

\* C7 amended: the zone of mean longitude -3.0 is 30, of 177.0 is 60 and of
\* -180.0 is 1.
C7_ZoneExamples ==
    Returned =>
        /\ (MeanLonIs(-3) => df[1].UTM_Zone = 30)
        /\ (MeanLonIs(177) => df[1].UTM_Zone = 60)
        /\ (MeanLonIs(-180) => df[1].UTM_Zone = 1)

\* C7 witness: a log whose mean longitude is -3.0 was put in zone 30.
C7_Witness == Returned /\ MeanLonIs(-3) /\ df[1].UTM_Zone = 30

\* seconds of the day of a packed time HHMMSS
SecondsOfDay(t) ==
    LET hh == t \div 10000
        mm == (t - hh * 10000) \div 100
        ss == t - hh * 10000 - mm * 100
    IN  hh * 3600 + mm * 60 + ss

\* C8: the frame holds one row per log row, in log order; the elapsed
\* seconds of row i are the signed difference between its time of day and
\* the first row's (0 for the first row, not wrapped across midnight,
\* non-decreasing when the log's times are); the exported track and markers
\* visit the points in the same order.
C8_RowsInOrder ==
    /\ Returned =>
        /\ Len(df) = Len(file)
        /\ \A i \in Rows :
            /\ df[i].Time = file[i].Time
            /\ df[i].Latitude = file[i].Latitude
            /\ df[i].Longitude = file[i].Longitude
            /\ file[i].CO2.k = "num" => df[i].CO2.v = file[i].CO2.v
            /\ df[i].Relative_Seconds =
                   SecondsOfDay(file[i].Time) - SecondsOfDay(file[1].Time)
        /\ df[1].Relative_Seconds = 0
        /\ (\A i, j \in Rows : i <= j => file[i].Time <= file[j].Time) =>
               \A i, j \in Rows :
                   i <= j => df[i].Relative_Seconds <= df[j].Relative_Seconds
    /\ pc = "done" =>
        /\ Len(kml.linestring) = Len(file)
        /\ Len(kml.points) = Len(file)
        /\ \A i \in Rows :
            /\ kml.linestring[i] = <<df[i].Longitude_DD, df[i].Latitude_DD, 0>>
            /\ kml.points[i].coords = <<df[i].Longitude_DD, df[i].Latitude_DD, 0>>
            /\ kml.points[i].co2_val = df[i].CO2
            /\ kml.points[i].Time = format_time_string(file[i].Time)

\* C8 witness: a log that passes midnight (23:59:59 then 00:00:05) was
\* exported, its second row 86394 seconds before the first.
C8_Witness ==
    /\ pc = "done"
    /\ Len(file) = 3
    /\ file[1].Time = 235959
    /\ file[2].Time = 5
    /\ file[3].Time = 100200
    /\ df[2].Relative_Seconds = -86394
    /\ kml.points[3].coords = <<df[3].Longitude_DD, df[3].Latitude_DD, 0>>

\* C9: once load_and_prepare_data has returned the frame, no consumer
\* changes any field of any row.
C9_FrameImmutable == [][Returned => df' = df]_vars

\* C10: for every zone in 1..60, single-digit zones included, the planar
\* system asked of CRS.from_epsg is EPSG 32600 + zone, and every point is
\* tagged with and projected in that zone.
C10_NorthernZoneCode ==
    (crs_utm # 0 /\ utm_zone(Longitude_DD_of(file)) \in 1..60) =>
        /\ crs_utm = 32600 + utm_zone(Longitude_DD_of(file))
        /\ Returned =>
             \A i \in Rows :
                /\ df[i].UTM_Zone = utm_zone(Longitude_DD_of(file))
                /\ df[i].Easting_m.epsg = 32600 + df[i].UTM_Zone
                /\ df[i].Northing_m.epsg = 32600 + df[i].UTM_Zone

====
